---- MODULE Spec2Model ----
(***************************************************************************)
(* Schema-migration engine of go-raptor/connector.                          *)
(*                                                                          *)
(* Two migrator variants share the connector.Migrator interface:            *)
(*   "pgx" : pgx.PgxMigrator           (src/pgx/migrator.go)                *)
(*   "bun" : postgres.PostgresMigrator (src/bun/postgres/migrator.go)       *)
(* A version is a Go string; it is modelled as a sequence of digits and     *)
(* compared as Go compares strings (bytewise, lexicographically).           *)
(* The database is the schema_migrations table (a row count per version,    *)
(* the PRIMARY KEY being enforced by the insert) and the schema, abstracted *)
(* to the set of versions whose up effect is visible.  Every call of the    *)
(* transactional executor may fail; migration bodies are opaque and may     *)
(* fail as well.                                                            *)
(***************************************************************************)
EXTENDS Integers, Sequences, FiniteSets, TLC

\* Versions are "1" .. "<MaxDigit>" and "10" ("1" < "10" < "2" as strings).
MaxDigit == 1

Versions == {<<d>> : d \in 1..MaxDigit} \cup {<<1, 0>>}

\* Arguments of UpTo / DownTo: every version and the empty string.
Targets == Versions \cup {<<>>}

\* The connector with integer keys registers migrations 1 .. n, n at most
\* MaxMigrations.
MaxMigrations == 3

\* The runners that may be inside Up() at the same time.
Runners == {1, 2}

VARIABLES
    variant,      \* "pgx" or "bun": which Migrator implementation is in use
    migrations,   \* the registry: keys of the Migrations map
    tableExists,  \* schema_migrations has been created
    rows,         \* schema_migrations: number of rows per version
    schema,       \* versions whose up effect is visible (committed)
    pc,           \* position of the running call: idle/begin/body/book/commit
    op,           \* operation running, or the one that returned last
    target,       \* argument of UpTo / DownTo
    queue,        \* versions the loop still has to process, current one first
    tx,           \* the open transaction and what it has staged
    log,          \* what the running (or last) call did, in order
    result,       \* return value of the last call: none/ok/err/notfound/...
    out,          \* value returned by Status / Version
    rows0,        \* rows when the running (or last) call started
    schema0,      \* schema when the running (or last) call started
    lastUpOk,     \* the last call to return was a successful Up()
    afterUp,      \* the running (or last) call started right after such an Up
    aborted,      \* the last call to return was an Up/UpTo that failed at a unit
    resumed,      \* the running (or last) call repeats the call that so failed
    trip,         \* the Down() calls since an Up() that filled an empty table
    conc,         \* two runners inside Up() at once, on the same database
    dense         \* the connector whose migrations are keyed 1..n (migrate)

vars == <<variant, migrations, tableExists, rows, schema, pc, op, target,
          queue, tx, log, result, out, rows0, schema0, lastUpOk, afterUp,
          aborted, resumed, trip, conc, dense>>

----------------------------------------------------------------------------
(* Go strings and sort.Strings *)

\* a < b on Go strings
RECURSIVE StrLess(_, _)
StrLess(a, b) ==
    IF b = <<>> THEN FALSE
    ELSE IF a = <<>> THEN TRUE
    ELSE IF Head(a) # Head(b) THEN Head(a) < Head(b)
    ELSE StrLess(Tail(a), Tail(b))

\* a <= b on Go strings
StrLeq(a, b) == a = b \/ StrLess(a, b)

RECURSIVE InsertSorted(_, _)
InsertSorted(s, x) ==
    IF s = <<>> THEN <<x>>
    ELSE IF StrLess(x, Head(s)) THEN <<x>> \o s
    ELSE <<Head(s)>> \o InsertSorted(Tail(s), x)

\* sort.Strings(s)
RECURSIVE SortStrings(_)
SortStrings(s) ==
    IF s = <<>> THEN <<>>
    ELSE InsertSorted(SortStrings(Tail(s)), Head(s))

\* reversal of a sequence (ORDER BY ... DESC of an ascending listing)
RECURSIVE Reverse(_)
Reverse(s) == IF s = <<>> THEN <<>> ELSE Reverse(Tail(s)) \o <<Head(s)>>

\* The orders in which `for k := range m` can visit the keys S of a Go map:
\* the language leaves the order unspecified, so every order is possible.
MapRange(S) ==
    {s \in [1..Cardinality(S) -> S] :
        \A i, j \in 1..Cardinality(S) : i # j => s[i] # s[j]}

\* Collecting the keys S of a map by `range` and sorting them with
\* sort.Strings: the keys are distinct, so whatever order the iteration
\* visited them in, the sorted slice is the same.
SortedKeys(S) == SortStrings(CHOOSE s \in MapRange(S) : TRUE)

----------------------------------------------------------------------------
(* The schema_migrations table and the transaction *)

\* versions that have at least one row
Executed(r) == {v \in Versions : r[v] > 0}

\* SELECT version FROM schema_migrations ORDER BY version ASC
SelectAsc(r) == SortedKeys(Executed(r))

SelectFirst(r) == IF Executed(r) = {} THEN <<>> ELSE <<Head(SelectAsc(r))>>

\* SELECT version FROM schema_migrations ORDER BY version DESC LIMIT 1:
\* no row, or the one row with the highest version
SelectLast(r) ==
    IF Executed(r) = {} THEN <<>> ELSE <<Head(Reverse(SelectAsc(r)))>>

\* SELECT version FROM schema_migrations WHERE version > $1 ORDER BY version DESC
SelectAbove(r, t) ==
    SelectSeq(Reverse(SelectAsc(r)), LAMBDA v : StrLess(t, v))

\* no transaction
NoTx == [open |-> FALSE, up |-> {}, down |-> {}, ins |-> {}, del |-> {}]

\* a transaction that has just begun
NewTx == [NoTx EXCEPT !.open = TRUE]

\* INSERT INTO schema_migrations: refused when the primary key exists
InsertAllowed(r, v) == r[v] = 0

\* the schema once transaction t commits
CommitSchema(s, t) == (s \cup t.up) \ t.down

\* the table once transaction t commits
CommitRows(r, t) ==
    [v \in Versions |->
        IF v \in t.del THEN 0
        ELSE IF v \in t.ins THEN r[v] + 1
        ELSE r[v]]

----------------------------------------------------------------------------
(* Bookkeeping shared by the operations *)

\* one entry of the log: what was done, and for which version
Ev(kind, v) == <<kind, v>>

\* a query of schema_migrations is answered when the executor does not fail
\* and the table has been created
QueryOk(ok) == ok /\ tableExists

\* no Up/UpTo has just failed at a unit
NoAbort == [op |-> "none"]

\* what the running Up/UpTo leaves behind when it fails at the current unit:
\* the call, the schema and the recorded versions it started from, and the
\* versions it committed
Abort(o) ==
    [op |-> o, target |-> target, from |-> schema0, had |-> Executed(rows0),
     done |-> {log[i][2] : i \in {j \in 1..Len(log) : log[j][1] = "commit"}}]

\* no Up() from an empty table is being undone
NoTrip == [live |-> FALSE]

\* no Down() has been called after the table was emptied again
NoExtra == [result |-> "none"]

\* the calls since an Up() that found the table empty, once the running call
\* of o returns r: that Up() opens the count with the registry it applied;
\* each successful Down() adds the rows its transaction deletes; the Down()
\* after as many Down() calls as registered versions is kept with its result;
\* any other call, or a failed Down() on the way, ends the count
TripAt(o, r) ==
    IF o = "Up"
    THEN IF r = "ok" /\ Executed(IF pc = "idle" THEN rows ELSE rows0) = {}
         THEN [live |-> TRUE, reg |-> migrations, downs |-> <<>>,
               extra |-> NoExtra]
         ELSE NoTrip
    ELSE IF o = "Down" /\ trip # NoTrip /\ trip.extra = NoExtra
    THEN IF Len(trip.downs) < Cardinality(trip.reg)
         THEN IF r = "ok"
              THEN [trip EXCEPT !.downs = Append(@, tx.del)]
              ELSE NoTrip
         ELSE [trip EXCEPT !.extra = [result |-> r, del |-> tx.del,
                                      setup |-> pc = "idle"]]
    ELSE NoTrip

\* a call of operation o with argument t starts
Start(o, t) ==
    /\ op' = o
    /\ target' = t
    /\ rows0' = rows
    /\ schema0' = schema
    /\ afterUp' = lastUpOk
    /\ resumed' = IF aborted # NoAbort /\ aborted.op = o /\ aborted.target = t
                  THEN aborted ELSE NoAbort

\* the running call returns r
Return(o, r) ==
    /\ pc' = "idle"
    /\ result' = r
    /\ tx' = NoTx
    /\ lastUpOk' = (o = "Up" /\ r = "ok")
    /\ aborted' = IF r = "err" /\ o \in {"Up", "UpTo"} /\ pc # "idle"
                  THEN Abort(o) ELSE NoAbort
    /\ trip' = TripAt(o, r)

\* the call enters its loop over q, or returns nil when q is empty
Loop(o, q) ==
    /\ queue' = q
    /\ IF q = <<>>
       THEN Return(o, "ok")
       ELSE /\ pc' = "begin"
            /\ result' = "none"
            /\ tx' = NoTx
            /\ lastUpOk' = FALSE
            /\ aborted' = NoAbort
            /\ trip' = IF o = "Down" THEN trip ELSE NoTrip

NoOut == <<>>

\* a runner that has not called Up() yet
RunnerIdle ==
    [pc |-> "start", queue |-> <<>>, tx |-> NoTx, result |-> "none",
     pk |-> FALSE]

\* no runner has started; no up effect has been committed
ConcIdle ==
    [run |-> [r \in Runners |-> RunnerIdle], ups |-> [v \in Versions |-> 0]]

\* the connector with migrations 1 .. n on a database without history rows
DenseIdle(n) ==
    [n |-> n, count |-> 0, effect |-> {}, pc |-> "idle", i |-> 0,
     staged |-> FALSE, log |-> <<>>, result |-> "none", count0 |-> 0,
     lastOk |-> FALSE, afterOk |-> FALSE]

Init ==
    /\ variant \in {"pgx", "bun"}
    /\ migrations = {}
    /\ tableExists = FALSE
    /\ rows = [v \in Versions |-> 0]
    /\ schema = {}
    /\ pc = "idle"
    /\ op = "none"
    /\ target = <<>>
    /\ queue = <<>>
    /\ tx = NoTx
    /\ log = <<>>
    /\ result = "none"
    /\ out = NoOut
    /\ rows0 = [v \in Versions |-> 0]
    /\ schema0 = {}
    /\ lastUpOk = FALSE
    /\ afterUp = FALSE
    /\ aborted = NoAbort
    /\ resumed = NoAbort
    /\ trip = NoTrip
    /\ conc = ConcIdle
    /\ dense = DenseIdle(0)

----------------------------------------------------------------------------
(* The registry *)

\* the registry changes between calls; what the last call returned is dropped
Registry(m) ==
    /\ pc = "idle"
    /\ migrations' = m
    /\ op' = "none"
    /\ target' = <<>>
    /\ queue' = <<>>
    /\ log' = <<>>
    /\ result' = "none"
    /\ out' = NoOut
    /\ rows0' = rows
    /\ schema0' = schema
    /\ lastUpOk' = FALSE
    /\ afterUp' = FALSE
    /\ aborted' = NoAbort
    /\ resumed' = NoAbort
    /\ trip' = NoTrip
    /\ UNCHANGED <<conc, dense>>
    /\ UNCHANGED <<variant, tableExists, rows, schema, pc, tx>>

\* PgxMigrator.AddMigration
AddMigration ==
    /\ variant = "pgx"
    /\ \E v \in Versions \ migrations : Registry(migrations \cup {v})

\* NewPgxMigrator: a fresh migrator on the same database
NewPgxMigrator ==
    /\ variant = "pgx"
    /\ migrations # {}
    /\ Registry({})

\* NewPostgresMigrator: a fresh migrator with the given Migrations map
NewPostgresMigrator ==
    /\ variant = "bun"
    /\ \E m \in SUBSET Versions : m # migrations /\ Registry(m)

----------------------------------------------------------------------------
(* PgxMigrator.Up *)

PendingAll(m, executed) == m

PendingForeign(m, executed) == Versions \ executed

\* the registered versions that have no row
Pending(m, executed) == m \ executed

\* createMigrationsTable, the query of the executed versions, the pending list
PgxUp ==
    /\ pc = "idle" /\ variant = "pgx"
    /\ Start("Up", <<>>)
    /\ out' = NoOut
    /\ \E fault \in {"none", "create", "query"} :
         /\ tableExists' = (tableExists \/ fault # "create")
         /\ log' = IF fault = "none" THEN <<>> ELSE <<Ev(fault, <<>>)>>
         /\ IF fault # "none"
            THEN Return("Up", "err") /\ queue' = <<>>
            ELSE Loop("Up", SortedKeys(Pending(migrations, Executed(rows))))
    /\ UNCHANGED <<conc, dense>>
    /\ UNCHANGED <<variant, migrations, rows, schema>>

\* m.pool.BeginTx
PgxUpBegin ==
    /\ pc = "begin" /\ variant = "pgx" /\ op = "Up"
    /\ \E ok \in BOOLEAN :
         IF ok
         THEN /\ tx' = NewTx
              /\ pc' = "body"
              /\ log' = Append(log, Ev("begin", Head(queue)))
              /\ UNCHANGED <<result, lastUpOk, aborted, trip>>
         ELSE /\ Return("Up", "err")
              /\ log' = Append(log, Ev("beginfail", Head(queue)))
    /\ UNCHANGED <<conc, dense>>
    /\ UNCHANGED <<variant, migrations, tableExists, rows, schema, op, target,
                   queue, out, rows0, schema0, afterUp,
                   resumed>>

\* migration.Up(tx): the body writes inside the transaction
PgxUpBody ==
    /\ pc = "body" /\ variant = "pgx" /\ op = "Up"
    /\ \E ok \in BOOLEAN :
         IF ok
         THEN /\ tx' = [tx EXCEPT !.up = @ \cup {Head(queue)}]
              /\ pc' = "book"
              /\ log' = Append(log, Ev("up", Head(queue)))
              /\ UNCHANGED <<result, lastUpOk, aborted, trip>>
         ELSE /\ Return("Up", "err")
              /\ log' = log \o <<Ev("up", Head(queue)),
                                 Ev("upfail", Head(queue)),
                                 Ev("rollback", Head(queue))>>
    /\ UNCHANGED <<conc, dense>>
    /\ UNCHANGED <<variant, migrations, tableExists, rows, schema, op, target,
                   queue, out, rows0, schema0, afterUp,
                   resumed>>

\* INSERT INTO schema_migrations inside the transaction
PgxUpInsert ==
    /\ pc = "book" /\ variant = "pgx" /\ op = "Up"
    /\ \E ok \in BOOLEAN :
         IF ok /\ InsertAllowed(rows, Head(queue))
         THEN /\ tx' = [tx EXCEPT !.ins = @ \cup {Head(queue)}]
              /\ pc' = "commit"
              /\ log' = Append(log, Ev("insert", Head(queue)))
              /\ UNCHANGED <<result, lastUpOk, aborted, trip>>
         ELSE /\ Return("Up", "err")
              /\ log' = log \o <<Ev("insertfail", Head(queue)),
                                 Ev("rollback", Head(queue))>>
    /\ UNCHANGED <<conc, dense>>
    /\ UNCHANGED <<variant, migrations, tableExists, rows, schema, op, target,
                   queue, out, rows0, schema0, afterUp,
                   resumed>>

\* tx.Commit: a failed commit leaves nothing of the transaction
PgxUpCommit ==
    /\ pc = "commit" /\ variant = "pgx" /\ op = "Up"
    /\ \E ok \in BOOLEAN :
         IF ok
         THEN /\ schema' = CommitSchema(schema, tx)
              /\ rows' = CommitRows(rows, tx)
              /\ log' = Append(log, Ev("commit", Head(queue)))
              /\ Loop("Up", Tail(queue))
         ELSE /\ Return("Up", "err")
              /\ log' = Append(log, Ev("commitfail", Head(queue)))
              /\ UNCHANGED <<schema, rows, queue>>
    /\ UNCHANGED <<conc, dense>>
    /\ UNCHANGED <<variant, migrations, tableExists, op, target, out, rows0,
                   schema0, afterUp,
                   resumed>>

----------------------------------------------------------------------------
(* PostgresMigrator.Up (bun) *)

\* createMigrationsTable, the query of the executed versions, the pending
\* list in map-iteration order (it is not sorted)
BunUp ==
    /\ pc = "idle" /\ variant = "bun"
    /\ Start("Up", <<>>)
    /\ out' = NoOut
    /\ \E fault \in {"none", "create", "query"} :
         /\ tableExists' = (tableExists \/ fault # "create")
         /\ log' = IF fault = "none" THEN <<>> ELSE <<Ev(fault, <<>>)>>
         /\ IF fault # "none"
            THEN Return("Up", "err") /\ queue' = <<>>
            ELSE \E pending \in MapRange(Pending(migrations, Executed(rows))) :
                    Loop("Up", pending)
    /\ UNCHANGED <<conc, dense>>
    /\ UNCHANGED <<variant, migrations, rows, schema>>

\* pm.db.BeginTx
BunUpBegin ==
    /\ pc = "begin" /\ variant = "bun" /\ op = "Up"
    /\ \E ok \in BOOLEAN :
         IF ok
         THEN /\ tx' = NewTx
              /\ pc' = "body"
              /\ log' = Append(log, Ev("begin", Head(queue)))
              /\ UNCHANGED <<result, lastUpOk, aborted, trip>>
         ELSE /\ Return("Up", "err")
              /\ log' = Append(log, Ev("beginfail", Head(queue)))
    /\ UNCHANGED <<conc, dense>>
    /\ UNCHANGED <<variant, migrations, tableExists, rows, schema, op, target,
                   queue, out, rows0, schema0, afterUp,
                   resumed>>

\* migration.Up(pm.db): the body writes on the database handle, outside the
\* transaction, so what it wrote is visible at once and no rollback undoes
\* it; a body that fails may have written before it failed
BunUpBody ==
    /\ pc = "body" /\ variant = "bun" /\ op = "Up"
    /\ \E ok \in BOOLEAN, wrote \in BOOLEAN :
         IF ok
         THEN /\ schema' = schema \cup {Head(queue)}
              /\ pc' = "book"
              /\ log' = Append(log, Ev("up", Head(queue)))
              /\ UNCHANGED <<tx, result, lastUpOk, aborted, trip>>
         ELSE /\ schema' = IF wrote THEN schema \cup {Head(queue)} ELSE schema
              /\ Return("Up", "err")
              /\ log' = log \o <<Ev("up", Head(queue)),
                                 Ev("upfail", Head(queue)),
                                 Ev("rollback", Head(queue))>>
    /\ UNCHANGED <<conc, dense>>
    /\ UNCHANGED <<variant, migrations, tableExists, rows, op, target,
                   queue, out, rows0, schema0, afterUp,
                   resumed>>

\* tx.NewInsert of the SchemaMigration row
BunUpInsert ==
    /\ pc = "book" /\ variant = "bun" /\ op = "Up"
    /\ \E ok \in BOOLEAN :
         IF ok /\ InsertAllowed(rows, Head(queue))
         THEN /\ tx' = [tx EXCEPT !.ins = @ \cup {Head(queue)}]
              /\ pc' = "commit"
              /\ log' = Append(log, Ev("insert", Head(queue)))
              /\ UNCHANGED <<result, lastUpOk, aborted, trip>>
         ELSE /\ Return("Up", "err")
              /\ log' = log \o <<Ev("insertfail", Head(queue)),
                                 Ev("rollback", Head(queue))>>
    /\ UNCHANGED <<conc, dense>>
    /\ UNCHANGED <<variant, migrations, tableExists, rows, schema, op, target,
                   queue, out, rows0, schema0, afterUp,
                   resumed>>

\* tx.Commit
BunUpCommit ==
    /\ pc = "commit" /\ variant = "bun" /\ op = "Up"
    /\ \E ok \in BOOLEAN :
         IF ok
         THEN /\ schema' = CommitSchema(schema, tx)
              /\ rows' = CommitRows(rows, tx)
              /\ log' = Append(log, Ev("commit", Head(queue)))
              /\ Loop("Up", Tail(queue))
         ELSE /\ Return("Up", "err")
              /\ log' = Append(log, Ev("commitfail", Head(queue)))
              /\ UNCHANGED <<schema, rows, queue>>
    /\ UNCHANGED <<conc, dense>>
    /\ UNCHANGED <<variant, migrations, tableExists, op, target, out, rows0,
                   schema0, afterUp,
                   resumed>>

BunStubSilent(o, t) ==
    /\ pc = "idle" /\ variant = "bun"
    /\ Start(o, t)
    /\ log' = <<>>
    /\ out' = NoOut
    /\ queue' = <<>>
    /\ Return(o, "ok")
    /\ UNCHANGED <<conc, dense>>
    /\ UNCHANGED <<variant, migrations, tableExists, rows, schema>>

\* PostgresMigrator.Down, UpTo, DownTo, Status, Version: "not implemented"
BunStub(o, t) ==
    /\ pc = "idle" /\ variant = "bun"
    /\ Start(o, t)
    /\ log' = <<>>
    /\ out' = NoOut
    /\ queue' = <<>>
    /\ Return(o, "notimpl")
    /\ UNCHANGED <<conc, dense>>
    /\ UNCHANGED <<variant, migrations, tableExists, rows, schema>>

BunDown == BunStub("Down", <<>>)

BunUpTo == \E t \in Targets : BunStub("UpTo", t)

BunDownTo == \E t \in Targets : BunStub("DownTo", t)

BunStatus == BunStub("Status", <<>>)

BunVersion == BunStub("Version", <<>>)

----------------------------------------------------------------------------
(* PgxMigrator.Down *)

KnownAlways(m, v) == TRUE

\* migration, exists := m.migrations[version]
Known(m, v) == v \in m

\* the query of the last version and the registry lookup
PgxDown ==
    /\ pc = "idle" /\ variant = "pgx"
    /\ Start("Down", <<>>)
    /\ out' = NoOut
    /\ \E ok \in BOOLEAN :
         /\ log' = IF QueryOk(ok) THEN <<>> ELSE <<Ev("query", <<>>)>>
         /\ IF ~QueryOk(ok)
            THEN Return("Down", "err") /\ queue' = <<>>
            ELSE IF SelectLast(rows) = <<>>
            THEN Return("Down", "ok") /\ queue' = <<>>
            ELSE IF ~Known(migrations, Head(SelectLast(rows)))
            THEN Return("Down", "notfound") /\ queue' = <<>>
            ELSE Loop("Down", SelectLast(rows))
    /\ UNCHANGED <<conc, dense>>
    /\ UNCHANGED <<variant, migrations, tableExists, rows, schema>>

\* m.pool.BeginTx
PgxDownBegin ==
    /\ pc = "begin" /\ variant = "pgx" /\ op = "Down"
    /\ \E ok \in BOOLEAN :
         IF ok
         THEN /\ tx' = NewTx
              /\ pc' = "body"
              /\ log' = Append(log, Ev("begin", Head(queue)))
              /\ UNCHANGED <<result, lastUpOk, aborted, trip>>
         ELSE /\ Return("Down", "err")
              /\ log' = Append(log, Ev("beginfail", Head(queue)))
    /\ UNCHANGED <<conc, dense>>
    /\ UNCHANGED <<variant, migrations, tableExists, rows, schema, op, target,
                   queue, out, rows0, schema0, afterUp,
                   resumed>>

PgxDownBodyOnPool ==
    /\ pc = "body" /\ variant = "pgx" /\ op = "Down"
    /\ \E ok \in BOOLEAN :
         IF ok
         THEN /\ schema' = schema \ {Head(queue)}
              /\ pc' = "book"
              /\ log' = Append(log, Ev("down", Head(queue)))
              /\ UNCHANGED <<tx, result, lastUpOk, aborted, trip>>
         ELSE /\ Return("Down", "err")
              /\ log' = log \o <<Ev("down", Head(queue)),
                                 Ev("downfail", Head(queue)),
                                 Ev("rollback", Head(queue))>>
              /\ UNCHANGED schema
    /\ UNCHANGED <<conc, dense>>
    /\ UNCHANGED <<variant, migrations, tableExists, rows, op, target,
                   queue, out, rows0, schema0, afterUp,
                   resumed>>

\* migration.Down(tx)
PgxDownBody ==
    /\ pc = "body" /\ variant = "pgx" /\ op = "Down"
    /\ \E ok \in BOOLEAN :
         IF ok
         THEN /\ tx' = [tx EXCEPT !.down = @ \cup {Head(queue)}]
              /\ pc' = "book"
              /\ log' = Append(log, Ev("down", Head(queue)))
              /\ UNCHANGED <<result, lastUpOk, aborted, trip>>
         ELSE /\ Return("Down", "err")
              /\ log' = log \o <<Ev("down", Head(queue)),
                                 Ev("downfail", Head(queue)),
                                 Ev("rollback", Head(queue))>>
    /\ UNCHANGED <<conc, dense>>
    /\ UNCHANGED <<variant, migrations, tableExists, rows, schema, op, target,
                   queue, out, rows0, schema0, afterUp,
                   resumed>>

\* DELETE FROM schema_migrations WHERE version = $1, inside the transaction
PgxDownDelete ==
    /\ pc = "book" /\ variant = "pgx" /\ op = "Down"
    /\ \E ok \in BOOLEAN :
         IF ok
         THEN /\ tx' = [tx EXCEPT !.del = @ \cup {Head(queue)}]
              /\ pc' = "commit"
              /\ log' = Append(log, Ev("delete", Head(queue)))
              /\ UNCHANGED <<result, lastUpOk, aborted, trip>>
         ELSE /\ Return("Down", "err")
              /\ log' = log \o <<Ev("deletefail", Head(queue)),
                                 Ev("rollback", Head(queue))>>
    /\ UNCHANGED <<conc, dense>>
    /\ UNCHANGED <<variant, migrations, tableExists, rows, schema, op, target,
                   queue, out, rows0, schema0, afterUp,
                   resumed>>

\* tx.Commit, then return nil
PgxDownCommit ==
    /\ pc = "commit" /\ variant = "pgx" /\ op = "Down"
    /\ \E ok \in BOOLEAN :
         IF ok
         THEN /\ schema' = CommitSchema(schema, tx)
              /\ rows' = CommitRows(rows, tx)
              /\ log' = Append(log, Ev("commit", Head(queue)))
              /\ queue' = Tail(queue)
              /\ Return("Down", "ok")
         ELSE /\ Return("Down", "err")
              /\ log' = Append(log, Ev("commitfail", Head(queue)))
              /\ UNCHANGED <<schema, rows, queue>>
    /\ UNCHANGED <<conc, dense>>
    /\ UNCHANGED <<variant, migrations, tableExists, op, target, out, rows0,
                   schema0, afterUp,
                   resumed>>

----------------------------------------------------------------------------
(* PgxMigrator.UpTo *)

\* the registered versions v <= version
UpToSet(m, t) == {v \in m : StrLeq(v, t)}

\* createMigrationsTable and the sorted list of versions up to the target;
\* the table is not consulted
PgxUpTo ==
    /\ pc = "idle" /\ variant = "pgx"
    /\ \E t \in Targets :
         /\ Start("UpTo", t)
         /\ \E ok \in BOOLEAN :
              /\ tableExists' = (tableExists \/ ok)
              /\ log' = IF ok THEN <<>> ELSE <<Ev("create", <<>>)>>
              /\ IF ~ok
                 THEN Return("UpTo", "err") /\ queue' = <<>>
                 ELSE Loop("UpTo", SortedKeys(UpToSet(migrations, t)))
    /\ out' = NoOut
    /\ UNCHANGED <<conc, dense>>
    /\ UNCHANGED <<variant, migrations, rows, schema>>

\* m.pool.BeginTx
PgxUpToBegin ==
    /\ pc = "begin" /\ variant = "pgx" /\ op = "UpTo"
    /\ \E ok \in BOOLEAN :
         IF ok
         THEN /\ tx' = NewTx
              /\ pc' = "body"
              /\ log' = Append(log, Ev("begin", Head(queue)))
              /\ UNCHANGED <<result, lastUpOk, aborted, trip>>
         ELSE /\ Return("UpTo", "err")
              /\ log' = Append(log, Ev("beginfail", Head(queue)))
    /\ UNCHANGED <<conc, dense>>
    /\ UNCHANGED <<variant, migrations, tableExists, rows, schema, op, target,
                   queue, out, rows0, schema0, afterUp,
                   resumed>>

\* migration.Up(tx); no row is inserted afterwards
PgxUpToBody ==
    /\ pc = "body" /\ variant = "pgx" /\ op = "UpTo"
    /\ \E ok \in BOOLEAN :
         IF ok
         THEN /\ tx' = [tx EXCEPT !.up = @ \cup {Head(queue)}]
              /\ pc' = "commit"
              /\ log' = Append(log, Ev("up", Head(queue)))
              /\ UNCHANGED <<result, lastUpOk, aborted, trip>>
         ELSE /\ Return("UpTo", "err")
              /\ log' = log \o <<Ev("up", Head(queue)),
                                 Ev("upfail", Head(queue)),
                                 Ev("rollback", Head(queue))>>
    /\ UNCHANGED <<conc, dense>>
    /\ UNCHANGED <<variant, migrations, tableExists, rows, schema, op, target,
                   queue, out, rows0, schema0, afterUp,
                   resumed>>

\* tx.Commit
PgxUpToCommit ==
    /\ pc = "commit" /\ variant = "pgx" /\ op = "UpTo"
    /\ \E ok \in BOOLEAN :
         IF ok
         THEN /\ schema' = CommitSchema(schema, tx)
              /\ rows' = CommitRows(rows, tx)
              /\ log' = Append(log, Ev("commit", Head(queue)))
              /\ Loop("UpTo", Tail(queue))
         ELSE /\ Return("UpTo", "err")
              /\ log' = Append(log, Ev("commitfail", Head(queue)))
              /\ UNCHANGED <<schema, rows, queue>>
    /\ UNCHANGED <<conc, dense>>
    /\ UNCHANGED <<variant, migrations, tableExists, op, target, out, rows0,
                   schema0, afterUp,
                   resumed>>

----------------------------------------------------------------------------
(* PgxMigrator.DownTo *)

\* the query of the recorded versions above the target, highest first
PgxDownTo ==
    /\ pc = "idle" /\ variant = "pgx"
    /\ \E t \in Targets :
         /\ Start("DownTo", t)
         /\ \E ok \in BOOLEAN :
              /\ log' = IF QueryOk(ok) THEN <<>> ELSE <<Ev("query", <<>>)>>
              /\ IF ~QueryOk(ok)
                 THEN Return("DownTo", "err") /\ queue' = <<>>
                 ELSE Loop("DownTo", SelectAbove(rows, t))
    /\ out' = NoOut
    /\ UNCHANGED <<conc, dense>>
    /\ UNCHANGED <<variant, migrations, tableExists, rows, schema>>

\* m.pool.BeginTx
PgxDownToBegin ==
    /\ pc = "begin" /\ variant = "pgx" /\ op = "DownTo"
    /\ \E ok \in BOOLEAN :
         IF ok
         THEN /\ tx' = NewTx
              /\ pc' = "body"
              /\ log' = Append(log, Ev("begin", Head(queue)))
              /\ UNCHANGED <<result, lastUpOk, aborted, trip>>
         ELSE /\ Return("DownTo", "err")
              /\ log' = Append(log, Ev("beginfail", Head(queue)))
    /\ UNCHANGED <<conc, dense>>
    /\ UNCHANGED <<variant, migrations, tableExists, rows, schema, op, target,
                   queue, out, rows0, schema0, afterUp,
                   resumed>>

\* migration.Down(tx), where migration is m.migrations[v] taken without the
\* exists check: for an unregistered version it is the nil interface and the
\* call panics; no row is deleted afterwards
PgxDownToBody ==
    /\ pc = "body" /\ variant = "pgx" /\ op = "DownTo"
    /\ IF Head(queue) \notin migrations
       THEN /\ Return("DownTo", "panic")
            /\ log' = Append(log, Ev("panic", Head(queue)))
       ELSE \E ok \in BOOLEAN :
              IF ok
              THEN /\ tx' = [tx EXCEPT !.down = @ \cup {Head(queue)}]
                   /\ pc' = "commit"
                   /\ log' = Append(log, Ev("down", Head(queue)))
                   /\ UNCHANGED <<result, lastUpOk, aborted, trip>>
              ELSE /\ Return("DownTo", "err")
                   /\ log' = log \o <<Ev("down", Head(queue)),
                                      Ev("downfail", Head(queue)),
                                      Ev("rollback", Head(queue))>>
    /\ UNCHANGED <<conc, dense>>
    /\ UNCHANGED <<variant, migrations, tableExists, rows, schema, op, target,
                   queue, out, rows0, schema0, afterUp,
                   resumed>>

\* tx.Commit
PgxDownToCommit ==
    /\ pc = "commit" /\ variant = "pgx" /\ op = "DownTo"
    /\ \E ok \in BOOLEAN :
         IF ok
         THEN /\ schema' = CommitSchema(schema, tx)
              /\ rows' = CommitRows(rows, tx)
              /\ log' = Append(log, Ev("commit", Head(queue)))
              /\ Loop("DownTo", Tail(queue))
         ELSE /\ Return("DownTo", "err")
              /\ log' = Append(log, Ev("commitfail", Head(queue)))
              /\ UNCHANGED <<schema, rows, queue>>
    /\ UNCHANGED <<conc, dense>>
    /\ UNCHANGED <<variant, migrations, tableExists, op, target, out, rows0,
                   schema0, afterUp,
                   resumed>>

----------------------------------------------------------------------------
(* PgxMigrator.Status and PgxMigrator.Version *)

StatusEntryPending(r, v) ==
    [version |-> v, executedAt |-> "nil", isApplied |-> FALSE]

\* one connector.MigrationStatus: a row of the table, or a pending unit
StatusEntry(r, v) ==
    IF r[v] > 0
    THEN [version |-> v, executedAt |-> "set", isApplied |-> TRUE]
    ELSE [version |-> v, executedAt |-> "nil", isApplied |-> FALSE]

\* the statuses of the registered versions, sorted by version
Statuses(m, r) ==
    LET sorted == SortedKeys(m)
    IN  [i \in 1..Len(sorted) |-> StatusEntry(r, sorted[i])]

PgxStatus ==
    /\ pc = "idle" /\ variant = "pgx"
    /\ Start("Status", <<>>)
    /\ queue' = <<>>
    /\ \E ok \in BOOLEAN :
         /\ log' = IF QueryOk(ok) THEN <<>> ELSE <<Ev("query", <<>>)>>
         /\ IF ~QueryOk(ok)
            THEN Return("Status", "err") /\ out' = NoOut
            ELSE Return("Status", "ok") /\ out' = Statuses(migrations, rows)
    /\ UNCHANGED <<conc, dense>>
    /\ UNCHANGED <<variant, migrations, tableExists, rows, schema>>

PgxVersionDeleting ==
    /\ pc = "idle" /\ variant = "pgx"
    /\ Start("Version", <<>>)
    /\ queue' = <<>>
    /\ \E ok \in BOOLEAN :
         /\ log' = IF QueryOk(ok) THEN <<>> ELSE <<Ev("query", <<>>)>>
         /\ IF ~QueryOk(ok)
            THEN Return("Version", "err") /\ out' = NoOut /\ rows' = rows
            ELSE /\ Return("Version", "ok")
                 /\ out' = IF SelectLast(rows) = <<>> THEN <<>>
                           ELSE Head(SelectLast(rows))
                 /\ rows' = CommitRows(rows,
                               [NoTx EXCEPT !.del =
                                   {v \in Versions :
                                       SelectLast(rows) = <<v>>}])
    /\ UNCHANGED <<conc, dense>>
    /\ UNCHANGED <<variant, migrations, tableExists, schema>>

\* the highest recorded version, or "" when there is none
PgxVersion ==
    /\ pc = "idle" /\ variant = "pgx"
    /\ Start("Version", <<>>)
    /\ queue' = <<>>
    /\ \E ok \in BOOLEAN :
         /\ log' = IF QueryOk(ok) THEN <<>> ELSE <<Ev("query", <<>>)>>
         /\ IF ~QueryOk(ok)
            THEN Return("Version", "err") /\ out' = NoOut
            ELSE /\ Return("Version", "ok")
                 /\ out' = IF SelectLast(rows) = <<>> THEN <<>>
                           ELSE Head(SelectLast(rows))
    /\ UNCHANGED <<conc, dense>>
    /\ UNCHANGED <<variant, migrations, tableExists, rows, schema>>

----------------------------------------------------------------------------

Next ==
    \/ AddMigration
    \/ NewPgxMigrator
    \/ NewPostgresMigrator
    \/ PgxUp
    \/ PgxUpBegin
    \/ PgxUpBody
    \/ PgxUpInsert
    \/ PgxUpCommit
    \/ BunUp
    \/ BunUpBegin
    \/ BunUpBody
    \/ BunUpInsert
    \/ BunUpCommit
    \/ BunDown
    \/ BunUpTo
    \/ BunDownTo
    \/ BunStatus
    \/ BunVersion
    \/ PgxDown
    \/ PgxDownBegin
    \/ PgxDownBody
    \/ PgxDownDelete
    \/ PgxDownCommit
    \/ PgxUpTo
    \/ PgxUpToBegin
    \/ PgxUpToBody
    \/ PgxUpToCommit
    \/ PgxDownTo
    \/ PgxDownToBegin
    \/ PgxDownToBody
    \/ PgxDownToCommit
    \/ PgxStatus
    \/ PgxVersion

Spec == Init /\ [][Next]_vars

----------------------------------------------------------------------------
(* One migrator with a fixed registry, on a database that starts empty *)

InitFixed ==
    /\ variant \in {"pgx", "bun"}
    /\ migrations \in SUBSET Versions
    /\ tableExists = FALSE
    /\ rows = [v \in Versions |-> 0]
    /\ schema = {}
    /\ pc = "idle"
    /\ op = "none"
    /\ target = <<>>
    /\ queue = <<>>
    /\ tx = NoTx
    /\ log = <<>>
    /\ result = "none"
    /\ out = NoOut
    /\ rows0 = [v \in Versions |-> 0]
    /\ schema0 = {}
    /\ lastUpOk = FALSE
    /\ afterUp = FALSE
    /\ aborted = NoAbort
    /\ resumed = NoAbort
    /\ trip = NoTrip
    /\ conc = ConcIdle
    /\ dense = DenseIdle(0)

NextFixed ==
    \/ PgxUp
    \/ PgxUpBegin
    \/ PgxUpBody
    \/ PgxUpInsert
    \/ PgxUpCommit
    \/ BunUp
    \/ BunUpBegin
    \/ BunUpBody
    \/ BunUpInsert
    \/ BunUpCommit
    \/ BunDown
    \/ BunUpTo
    \/ BunDownTo
    \/ BunStatus
    \/ BunVersion
    \/ PgxDown
    \/ PgxDownBegin
    \/ PgxDownBody
    \/ PgxDownDelete
    \/ PgxDownCommit
    \/ PgxUpTo
    \/ PgxUpToBegin
    \/ PgxUpToBody
    \/ PgxUpToCommit
    \/ PgxDownTo
    \/ PgxDownToBegin
    \/ PgxDownToBody
    \/ PgxDownToCommit
    \/ PgxStatus
    \/ PgxVersion

SpecFixed == InitFixed /\ [][NextFixed]_vars

----------------------------------------------------------------------------
(* PostgresConnector.migrate: migrations keyed 1 .. n, applied by row count *)

\* the variables of the string-keyed migrators
main == <<variant, migrations, tableExists, rows, schema, pc, op, target,
          queue, tx, log, result, out, rows0, schema0, lastUpOk, afterUp,
          aborted, resumed, trip>>

FirstIndexSame(currentVersion) == currentVersion

\* for i := currentVersion + 1
FirstIndex(currentVersion) == currentVersion + 1

\* migrate() returns r
DenseReturn(d, r) ==
    [d EXCEPT !.pc = "idle", !.result = r, !.staged = FALSE,
              !.lastOk = (r = "ok")]

\* the loop test i <= len(c.migrations): the next unit, or return nil
DenseLoop(d, i) ==
    IF i <= d.n
    THEN [d EXCEPT !.pc = "begin", !.i = i, !.result = "none",
                   !.staged = FALSE, !.lastOk = FALSE]
    ELSE DenseReturn([d EXCEPT !.i = i], "ok")

\* create the table if absent, count its rows, enter the loop
Migrate ==
    /\ dense.pc = "idle"
    /\ \E fault \in {"none", "create", "count"} :
         LET d == [dense EXCEPT !.count0 = dense.count,
                                !.afterOk = dense.lastOk,
                                !.log = IF fault = "none" THEN <<>>
                                        ELSE <<Ev(fault, 0)>>]
         IN  dense' = IF fault # "none" THEN DenseReturn(d, "err")
                      ELSE DenseLoop(d, FirstIndex(dense.count))
    /\ UNCHANGED <<main, conc>>

\* c.conn.BeginTx
MigrateBegin ==
    /\ dense.pc = "begin"
    /\ \E ok \in BOOLEAN :
         dense' =
           IF ok
           THEN [dense EXCEPT !.pc = "body",
                              !.log = Append(@, Ev("begin", dense.i))]
           ELSE DenseReturn([dense EXCEPT
                    !.log = Append(@, Ev("beginfail", dense.i))], "err")
    /\ UNCHANGED <<main, conc>>

\* c.migrations[i](c.conn): the body writes on the connection, outside the
\* transaction; on an error the transaction is rolled back
MigrateBody ==
    /\ dense.pc = "body"
    /\ \E ok \in BOOLEAN, wrote \in BOOLEAN :
         dense' =
           IF ok
           THEN [dense EXCEPT !.pc = "book",
                              !.effect = @ \cup {dense.i},
                              !.log = Append(@, Ev("run", dense.i))]
           ELSE DenseReturn([dense EXCEPT
                    !.effect = IF wrote THEN @ \cup {dense.i} ELSE @,
                    !.log = @ \o <<Ev("run", dense.i),
                                   Ev("runfail", dense.i),
                                   Ev("rollback", dense.i)>>], "err")
    /\ UNCHANGED <<main, conc>>

\* tx.NewInsert of the SchemaMigration row
MigrateInsert ==
    /\ dense.pc = "book"
    /\ \E ok \in BOOLEAN :
         dense' =
           IF ok
           THEN [dense EXCEPT !.pc = "commit", !.staged = TRUE,
                              !.log = Append(@, Ev("insert", dense.i))]
           ELSE DenseReturn([dense EXCEPT
                    !.log = @ \o <<Ev("insertfail", dense.i),
                                   Ev("rollback", dense.i)>>], "err")
    /\ UNCHANGED <<main, conc>>

\* tx.Commit, then i++
MigrateCommit ==
    /\ dense.pc = "commit"
    /\ \E ok \in BOOLEAN :
         dense' =
           IF ok
           THEN DenseLoop([dense EXCEPT
                    !.count = @ + 1,
                    !.log = Append(@, Ev("commit", dense.i))], dense.i + 1)
           ELSE DenseReturn([dense EXCEPT
                    !.log = Append(@, Ev("commitfail", dense.i))], "err")
    /\ UNCHANGED <<main, conc>>

InitMigrate ==
    /\ variant = "bun"
    /\ migrations = {}
    /\ tableExists = FALSE
    /\ rows = [v \in Versions |-> 0]
    /\ schema = {}
    /\ pc = "idle"
    /\ op = "none"
    /\ target = <<>>
    /\ queue = <<>>
    /\ tx = NoTx
    /\ log = <<>>
    /\ result = "none"
    /\ out = NoOut
    /\ rows0 = [v \in Versions |-> 0]
    /\ schema0 = {}
    /\ lastUpOk = FALSE
    /\ afterUp = FALSE
    /\ aborted = NoAbort
    /\ resumed = NoAbort
    /\ trip = NoTrip
    /\ conc = ConcIdle
    /\ \E n \in 0..MaxMigrations : dense = DenseIdle(n)

NextMigrate ==
    \/ Migrate
    \/ MigrateBegin
    \/ MigrateBody
    \/ MigrateInsert
    \/ MigrateCommit

SpecMigrate == InitMigrate /\ [][NextMigrate]_vars

----------------------------------------------------------------------------
(* Vocabulary of the properties *)

\* the versions of the log entries of one kind, in the order they were logged
Logged(kind) ==
    LET sel == SelectSeq(log, LAMBDA e : e[1] = kind)
    IN  [i \in 1..Len(sel) |-> sel[i][2]]

Range(s) == {s[i] : i \in 1..Len(s)}

Ascending(s) == \A i, j \in 1..Len(s) : i < j => StrLess(s[i], s[j])

Descending(s) == \A i, j \in 1..Len(s) : i < j => StrLess(s[j], s[i])

\* the greatest version of a non-empty set
HighestOf(S) == CHOOSE h \in S : \A w \in S : StrLeq(w, h)

\* the last call was operation o and it returned r
Returned(o, r) == pc = "idle" /\ op = o /\ result = r

\* the only log a call leaves when the executor failed before any unit
SetupFailed == log \in {<<Ev("create", <<>>)>>, <<Ev("query", <<>>)>>}

----------------------------------------------------------------------------
(* Properties *)

\* C1: a successful Up() ran the up action of exactly the registered versions
\* that had no record, each once and in ascending version order, and every
\* registered version has a record afterwards -- in both variants.
C1_UpAppliesPendingAscending ==
    Returned("Up", "ok") =>
        /\ Ascending(Logged("up"))
        /\ Range(Logged("up")) = migrations \ Executed(rows0)
        /\ migrations \subseteq Executed(rows)

\* C2: over any sequence of PgxMigrator calls, the up action of a version is
\* never executed while its up effect is committed and has not been reverted
\* since.
C2_UpRunsAtMostOnce ==
    [][variant = "pgx" => \A v \in Versions :
          (/\ Len(log') > Len(log)
           /\ \E i \in (Len(log) + 1)..Len(log') : log'[i] = Ev("up", v))
          => v \notin schema]_vars

\* C3: Up() keeps the schema and the table together: when it starts with the
\* up effect visible exactly for the recorded versions, then however it
\* returns (success, failing body, failing insert, failing commit) the up
\* effect is again visible exactly for the recorded versions.
C3_UpAtomic ==
    (pc = "idle" /\ op = "Up" /\ schema0 = Executed(rows0))
        => schema = Executed(rows)

\* C4: between calls of Up, Down, UpTo and DownTo, a version has a record
\* if and only if its up action was committed and not reverted since.
C4_RecordIffUpCommitted ==
    (variant = "pgx" /\ pc = "idle") =>
        \A v \in Versions : (rows[v] > 0) <=> (v \in schema)

\* C5: an Up() that immediately follows a successful Up() on the same
\* registry returns at once, runs no up action, inserts no record and leaves
\* the table and the schema as they were; it returns success (an error only
\* if the executor itself failed to create or read the table).
C5_UpIdempotent ==
    (afterUp /\ op = "Up") =>
        /\ pc = "idle"
        /\ rows = rows0
        /\ schema = schema0
        /\ Logged("up") = <<>>
        /\ Logged("insert") = <<>>
        /\ \/ log = <<>> /\ result = "ok"
           \/ SetupFailed /\ result = "err"

C5_Witness ==
    /\ afterUp /\ Returned("Up", "ok")
    /\ migrations = Versions
    /\ Executed(rows) = Versions

\* C6: when the up action, the insert or the commit of pending version V
\* fails, Up() returns the error at once with V's transaction undone; the
\* pending versions ordered before V are applied and recorded, V and the
\* pending versions ordered after V have no record, and no up action ran
\* for the later ones.
C6_UpFailFast ==
    (/\ Returned("Up", "err")
     /\ queue # <<>>
     /\ Ev("begin", Head(queue)) \in Range(log))
    => LET V == Head(queue)
           pend == migrations \ Executed(rows0)
       IN  /\ log[Len(log)][2] = V
           /\ rows[V] = 0
           /\ (V \in schema) <=> (V \in schema0)
           /\ \A w \in pend : StrLess(w, V) => rows[w] > 0 /\ w \in schema
           /\ \A w \in pend : StrLess(V, w) =>
                  rows[w] = 0 /\ w \notin Range(Logged("up"))

\* C7: PgxMigrator.Down reverts exactly the highest recorded version: a
\* successful Down() on a non-empty table ran the down action of that
\* version only and deleted that record only; on an empty table Down()
\* changes nothing and returns success (an error only if the query of the
\* table could not be answered).
C7_DownRevertsHighest ==
    (variant = "pgx" /\ op = "Down" /\ pc = "idle") =>
        /\ (result = "ok" /\ Executed(rows0) # {}) =>
              LET h == HighestOf(Executed(rows0))
              IN  /\ h \in migrations
                  /\ Logged("down") = <<h>>
                  /\ Logged("delete") = <<h>>
                  /\ rows = [rows0 EXCEPT ![h] = 0]
        /\ Executed(rows0) = {} =>
              /\ rows = rows0
              /\ schema = schema0
              /\ Logged("begin") = <<>>
              /\ \/ log = <<>> /\ result = "ok"
                 \/ log = <<Ev("query", <<>>)>> /\ result = "err"

C7_Witness ==
    /\ variant = "pgx" /\ Returned("Down", "ok")
    /\ Cardinality(Executed(rows0)) >= 2
    /\ Executed(rows) = Executed(rows0) \ {HighestOf(Executed(rows0))}

\* C8: when the highest recorded version is not in the registry,
\* PgxMigrator.Down returns the not-found error without opening a
\* transaction or running a down action, and the table and the schema are
\* unchanged (the only other outcome is the error of a failed query).
C8_DownUnknownVersion ==
    (/\ variant = "pgx" /\ op = "Down"
     /\ Executed(rows0) # {}
     /\ HighestOf(Executed(rows0)) \notin migrations)
    => /\ pc = "idle"
       /\ rows = rows0
       /\ schema = schema0
       /\ \/ log = <<>> /\ result = "notfound"
          \/ log = <<Ev("query", <<>>)>> /\ result = "err"

C8_Witness ==
    /\ variant = "pgx" /\ Returned("Down", "notfound")
    /\ Executed(rows0) # {}
    /\ HighestOf(Executed(rows0)) \notin migrations
    /\ migrations # {}

\* C9: a successful UpTo(T) ran, in ascending order, the up action of
\* exactly the registered versions <= T that were not applied; afterwards
\* every registered version <= T is recorded, the versions > T are as they
\* were, and Status() reports exactly this split.
C9_UpToBoundary ==
    Returned("UpTo", "ok") =>
        LET upto == {v \in migrations : StrLeq(v, target)}
            st == Statuses(migrations, rows)
        IN  /\ Ascending(Logged("up"))
            /\ Range(Logged("up")) = upto \ Executed(rows0)
            /\ upto \subseteq Executed(rows)
            /\ \A v \in migrations \ upto : rows[v] = rows0[v]
            /\ \A i \in 1..Len(st) :
                  st[i].isApplied <=>
                      (st[i].version \in upto \cup Executed(rows0))

\* C10: a successful DownTo(T) ran, in descending order, the down action
\* of exactly the applied versions > T; afterwards no version > T has a
\* record and every version <= T is as it was.
C10_DownToBoundary ==
    Returned("DownTo", "ok") =>
        LET above == {v \in Executed(rows0) : StrLess(target, v)}
        IN  /\ Descending(Logged("down"))
            /\ Range(Logged("down")) = above
            /\ \A v \in Versions : StrLess(target, v) => rows[v] = 0
            /\ \A v \in Versions : ~StrLess(target, v) => rows[v] = rows0[v]

\* C11: PgxMigrator.Status returns one entry per registered version, in
\* ascending version order; an entry is applied and carries an executed-at
\* time exactly when schema_migrations holds a record of its version, and
\* is not applied with no executed-at time otherwise.
C11_StatusJoin ==
    (variant = "pgx" /\ Returned("Status", "ok")) =>
        /\ Len(out) = Cardinality(migrations)
        /\ {out[i].version : i \in 1..Len(out)} = migrations
        /\ \A i, j \in 1..Len(out) :
              i < j => StrLess(out[i].version, out[j].version)
        /\ \A i \in 1..Len(out) :
              /\ out[i].isApplied <=> (rows[out[i].version] > 0)
              /\ (out[i].executedAt = "set") <=> (rows[out[i].version] > 0)
              /\ out[i].executedAt \in {"set", "nil"}

C11_Witness ==
    /\ variant = "pgx" /\ Returned("Status", "ok")
    /\ migrations = Versions
    /\ \E v, w \in Versions : rows[v] > 0 /\ rows[w] = 0

\* C12: a record whose version is not in the registry is surfaced by
\* Status(): a Status() that returns a result has an entry for every
\* recorded version (otherwise it returns an error).
C12_StatusSurfacesOrphans ==
    (variant = "pgx" /\ Returned("Status", "ok")) =>
        \A v \in Versions :
            rows[v] > 0 => \E i \in 1..Len(out) : out[i].version = v

\* C13: PgxMigrator.Version returns the highest recorded version under the
\* string order used by Up and Status, and the empty value when the table
\* is empty; the only error is that of a query that could not be answered.
C13_VersionIsHighest ==
    (variant = "pgx" /\ op = "Version") =>
        /\ pc = "idle"
        /\ \/ /\ result = "ok" /\ log = <<>>
              /\ out = IF \A v \in Versions : rows[v] = 0 THEN <<>>
                       ELSE HighestOf({v \in Versions : rows[v] > 0})
           \/ result = "err" /\ log = <<Ev("query", <<>>)>>

C13_Witness ==
    /\ variant = "pgx" /\ Returned("Version", "ok")
    /\ Cardinality({v \in Versions : rows[v] > 0}) >= 2
    /\ out = <<1, 0>>

\* C14: Down, UpTo, DownTo, Status and Version of PostgresMigrator return
\* the not-implemented error on every call, whatever the state, and change
\* neither the registry, nor the table, nor the schema.
C14_StubsFailLoudly ==
    [][(variant = "bun" /\ op' \in {"Down", "UpTo", "DownTo", "Status", "Version"})
          => /\ pc' = "idle"
             /\ result' = "notimpl"
             /\ UNCHANGED <<migrations, tableExists, rows, schema>>]_vars

C14_Witness ==
    /\ variant = "bun" /\ Returned("DownTo", "notimpl")
    /\ \E v \in Versions : rows[v] > 0 /\ v \in schema

\* C18: a PgxMigrator.Down that returns an error (failing query, begin,
\* down action, delete or commit) has left the table and the schema as
\* they were, with no transaction open: the record of the version it was
\* reverting is still there, and so is the unit's schema effect.
C18_FailedRevertChangesNothing ==
    (variant = "pgx" /\ Returned("Down", "err")) =>
        /\ rows = rows0
        /\ schema = schema0
        /\ tx = NoTx

C18_Witness ==
    /\ variant = "pgx" /\ Returned("Down", "err")
    /\ queue # <<>>
    /\ Ev("deletefail", Head(queue)) \in Range(log)
    /\ rows[Head(queue)] > 0
    /\ Head(queue) \in schema

\* C19: a DownTo(T) that meets a recorded version > T that the registry
\* does not know returns an error (it neither crashes nor skips the
\* version) and the record stays.
C19_DownToUnknownVersion ==
    (/\ variant = "pgx" /\ op = "DownTo" /\ pc = "idle"
     /\ queue # <<>>
     /\ Head(queue) \notin migrations
     /\ Ev("begin", Head(queue)) \in Range(log))
    => /\ result = "err"
       /\ rows[Head(queue)] > 0

\* C15: with a fixed registry and a table that starts empty, whatever
\* Up, Down, UpTo and DownTo calls are made, every recorded version is a
\* registered one and no version has more than one record.
C15_RecordsWithinRegistry ==
    \A v \in Versions :
        /\ rows[v] <= 1
        /\ rows[v] > 0 => v \in migrations

C15_Witness ==
    /\ Returned("Down", "ok")
    /\ \E v \in migrations : rows[v] = 0 /\ v \in Executed(rows0)
    /\ \E v \in migrations : rows[v] = 1

\* C17: when Up() or UpTo(T) failed at a unit and the same call is made
\* again and succeeds, the second run ran the up action of no version the
\* first run had committed, and it ends with the up effect of every version
\* the call is to apply (the registered versions without a record for Up,
\* those <= T for UpTo), as one run without the failure would.
C17_Resumable ==
    (resumed # NoAbort /\ pc = "idle" /\ result = "ok") =>
        LET goal == IF op = "Up" THEN migrations \ resumed.had
                    ELSE {v \in migrations : StrLeq(v, target)}
        IN  /\ Range(Logged("up")) \cap resumed.done = {}
            /\ schema = resumed.from \cup goal

----------------------------------------------------------------------------
(* Two runners inside Up() at once, on one database and one registry *)

\* what a runner does not touch: the single-caller call state and the
\* integer-keyed connector
single == <<pc, op, target, queue, tx, log, result, out, rows0, schema0,
            lastUpOk, afterUp, aborted, resumed, trip,
            dense>>

\* runner r returns res; pk tells that its INSERT hit the primary key
ConcReturn(r, res, pk) ==
    [conc EXCEPT !.run[r] = [pc |-> "done", queue |-> <<>>, tx |-> NoTx,
                             result |-> res, pk |-> pk]]

\* the loop over the pending list of runner r
ConcLoop(c, r, q) ==
    IF q = <<>>
    THEN [c EXCEPT !.run[r] = [pc |-> "done", queue |-> <<>>, tx |-> NoTx,
                               result |-> "ok", pk |-> FALSE]]
    ELSE [c EXCEPT !.run[r].pc = "begin", !.run[r].queue = q,
                   !.run[r].tx = NoTx]

\* the up effects committed so far, counted per version
CountUps(u, S) == [v \in Versions |-> IF v \in S THEN u[v] + 1 ELSE u[v]]

\* another runner's open transaction holds an uncommitted row for v: the
\* INSERT waits for that transaction to end
RowLocked(r, v) ==
    \E s \in Runners \ {r} : conc.run[s].tx.open /\ v \in conc.run[s].tx.ins

\* createMigrationsTable, the query of the committed rows, the pending list
ConcUp(r) ==
    /\ conc.run[r].pc = "start"
    /\ \E fault \in {"none", "create", "query"} :
         /\ tableExists' = (tableExists \/ fault # "create")
         /\ IF fault # "none"
            THEN conc' = ConcReturn(r, "err", FALSE)
            ELSE LET P == Pending(migrations, Executed(rows))
                 IN  \E q \in IF variant = "pgx" THEN {SortedKeys(P)}
                              ELSE MapRange(P) :
                         conc' = ConcLoop(conc, r, q)
    /\ UNCHANGED <<variant, migrations, rows, schema, single>>

\* BeginTx
ConcBegin(r) ==
    /\ conc.run[r].pc = "begin"
    /\ \E ok \in BOOLEAN :
         conc' = IF ok
                 THEN [conc EXCEPT !.run[r].pc = "body", !.run[r].tx = NewTx]
                 ELSE ConcReturn(r, "err", FALSE)
    /\ UNCHANGED <<variant, migrations, tableExists, rows, schema, single>>

\* migration.Up(tx) in pgx: staged in the runner's transaction;
\* migration.Up(pm.db) in bun: written to the database at once
ConcBody(r) ==
    /\ conc.run[r].pc = "body"
    /\ LET v == Head(conc.run[r].queue)
       IN  \E ok \in BOOLEAN, wrote \in BOOLEAN :
             IF ok
             THEN IF variant = "pgx"
                  THEN /\ conc' = [conc EXCEPT !.run[r].pc = "book",
                                               !.run[r].tx.up = @ \cup {v}]
                       /\ schema' = schema
                  ELSE /\ conc' = [conc EXCEPT
                                      !.run[r].pc = "book",
                                      !.ups = CountUps(@, {v})]
                       /\ schema' = schema \cup {v}
             ELSE /\ conc' = ConcReturn(r, "err", FALSE)
                  /\ schema' = IF variant = "bun" /\ wrote
                               THEN schema \cup {v} ELSE schema
    /\ UNCHANGED <<variant, migrations, tableExists, rows, single>>

\* INSERT INTO schema_migrations inside the transaction: waits while another
\* transaction holds the key, is refused when the key is committed
ConcInsert(r) ==
    /\ conc.run[r].pc = "book"
    /\ LET v == Head(conc.run[r].queue)
       IN  \E ok \in BOOLEAN :
             IF ~ok
             THEN conc' = ConcReturn(r, "err", FALSE)
             ELSE /\ ~RowLocked(r, v)
                  /\ conc' = IF InsertAllowed(rows, v)
                             THEN [conc EXCEPT !.run[r].pc = "commit",
                                               !.run[r].tx.ins = @ \cup {v}]
                             ELSE ConcReturn(r, "err", TRUE)
    /\ UNCHANGED <<variant, migrations, tableExists, rows, schema, single>>

\* Commit: the staged row, and in pgx the staged up effect, become visible
ConcCommit(r) ==
    /\ conc.run[r].pc = "commit"
    /\ LET t == conc.run[r].tx
       IN  \E ok \in BOOLEAN :
             IF ok
             THEN /\ rows' = CommitRows(rows, t)
                  /\ schema' = CommitSchema(schema, t)
                  /\ conc' = ConcLoop([conc EXCEPT
                                         !.ups = CountUps(@, t.up)],
                                      r, Tail(conc.run[r].queue))
             ELSE /\ conc' = ConcReturn(r, "err", FALSE)
                  /\ UNCHANGED <<rows, schema>>
    /\ UNCHANGED <<variant, migrations, tableExists, single>>

InitConc ==
    /\ variant \in {"pgx", "bun"}
    /\ migrations \in SUBSET Versions
    /\ \E had \in SUBSET migrations :
         /\ tableExists = (had # {})
         /\ rows = [v \in Versions |-> IF v \in had THEN 1 ELSE 0]
         /\ schema = had
    /\ pc = "idle"
    /\ op = "none"
    /\ target = <<>>
    /\ queue = <<>>
    /\ tx = NoTx
    /\ log = <<>>
    /\ result = "none"
    /\ out = NoOut
    /\ rows0 = [v \in Versions |-> 0]
    /\ schema0 = {}
    /\ lastUpOk = FALSE
    /\ afterUp = FALSE
    /\ aborted = NoAbort
    /\ resumed = NoAbort
    /\ trip = NoTrip
    /\ conc = ConcIdle
    /\ dense = DenseIdle(0)

NextConc ==
    \E r \in Runners :
        \/ ConcUp(r)
        \/ ConcBegin(r)
        \/ ConcBody(r)
        \/ ConcInsert(r)
        \/ ConcCommit(r)

SpecConc == InitConc /\ [][NextConc]_vars

\* the migrations the running (or last) migrate() ran, in order
DenseRan ==
    LET sel == SelectSeq(dense.log, LAMBDA e : e[1] = "run")
    IN  [j \in 1..Len(sel) |-> sel[j][2]]

\* the migrations whose history row the running (or last) migrate() committed
DenseCommitted ==
    {dense.log[j][2] : j \in {x \in 1..Len(dense.log) :
                                  dense.log[x][1] = "commit"}}

\* C20: migrate() with migrations 1..n and k history rows runs k+1, k+2,
\* ... in increasing order and nothing else; every migration that ran
\* through has one new row; at the first failure it stops and the failed
\* migration has no row; on success it ran up to n and there are n rows,
\* and a migrate() right after a successful one runs nothing.
C20_DenseMigrate ==
    (dense.pc = "idle" /\ dense.result # "none") =>
        LET k == dense.count0
            ran == DenseRan
        IN  /\ \A j \in 1..Len(ran) : ran[j] = k + j
            /\ k + Len(ran) <= dense.n
            /\ dense.count = k + Cardinality(DenseCommitted)
            /\ dense.result = "ok" =>
                  /\ k + Len(ran) = dense.n
                  /\ DenseCommitted = Range(ran)
                  /\ dense.count = dense.n
            /\ dense.result = "err" =>
                  \/ dense.log \in {<<Ev("create", 0)>>, <<Ev("count", 0)>>}
                  \/ LET f == dense.log[Len(dense.log)][2]
                     IN  /\ f \notin DenseCommitted
                         /\ DenseCommitted = (k + 1)..(f - 1)
                         /\ Range(ran) \subseteq (k + 1)..f
            /\ dense.afterOk =>
                  /\ ran = <<>>
                  /\ dense.count = k
                  /\ dense.log = <<>> => dense.result = "ok"

C20_Witness ==
    /\ dense.pc = "idle" /\ dense.result = "err"
    /\ dense.count0 >= 1
    /\ Len(DenseRan) >= 2
    /\ dense.count = dense.count0 + 1

\* C16: with two runners inside Up() at once, in every interleaving of
\* their steps, no version has two rows in schema_migrations, a runner whose
\* INSERT hit the primary key has rolled back and returned an error, and no
\* version's up effect has been committed twice.
C16_ConcurrentUp ==
    /\ \A v \in Versions : rows[v] <= 1
    /\ \A r \in Runners :
          conc.run[r].pk =>
              /\ conc.run[r].result = "err"
              /\ conc.run[r].tx = NoTx
    /\ \A v \in Versions : conc.ups[v] <= 1

\* C21: Status() and Version() are read-only: a call of either, in any
\* state and whatever it returns, leaves schema_migrations (its existence
\* and its rows), the registry and the schema as they were, and runs no
\* unit's up or down action.
C21_ReadOnly ==
    [][(pc = "idle" /\ op' \in {"Status", "Version"})
          => /\ pc' = "idle"
             /\ UNCHANGED <<migrations, tableExists, rows, schema>>
             /\ \A i \in 1..Len(log') :
                   log'[i][1] \notin {"up", "upfail", "down", "downfail"}]_vars

C21_Witness ==
    /\ variant = "pgx" /\ pc = "idle"
    /\ op \in {"Status", "Version"} /\ result = "ok"
    /\ migrations # {}
    /\ \E v \in Versions : rows[v] > 0 /\ v \in schema
    /\ rows = rows0 /\ schema = schema0

\* C22: after a PgxMigrator.Up() that found the table empty and succeeded
\* with n registered versions, n successful Down() calls in a row revert
\* one version each, in strictly descending version order, and leave the
\* table empty and none of the n up effects in the schema; the Down() after
\* them deletes nothing and returns nil (or the error of a query the
\* executor could not answer).
C22_RoundTrip ==
    (variant = "pgx" /\ trip # NoTrip) =>
        LET d == trip.downs
            n == Cardinality(trip.reg)
        IN  /\ \A i \in 1..Len(d) :
                  Cardinality(d[i]) = 1 /\ d[i] \subseteq trip.reg
            /\ \A i, j \in 1..Len(d) :
                  i < j => \A v \in d[i], w \in d[j] : StrLess(w, v)
            /\ Executed(rows) = trip.reg \ UNION {d[i] : i \in 1..Len(d)}
            /\ Len(d) = n => Executed(rows) = {} /\ schema \cap trip.reg = {}
            /\ trip.extra # NoExtra =>
                  /\ trip.extra.del = {}
                  /\ \/ trip.extra.result = "ok"
                     \/ trip.extra.result = "err" /\ trip.extra.setup

C22_Witness ==
    /\ variant = "pgx" /\ trip # NoTrip
    /\ trip.reg = Versions
    /\ trip.downs = <<{<<1, 0>>}, {<<1>>}>>
    /\ trip.extra # NoExtra /\ trip.extra.result = "ok"
    /\ Returned("Down", "ok")

====
